---- MODULE Spec2Model ----
(***************************************************************************)
(* Vocal Mirror: the cycle controller (VocalMirror.ts) with its bounded    *)
(* buffer (AudioBuffer), silence analyzer (AudioAnalyzer), capture driver  *)
(* (AudioRecorder) and playback driver (AudioPlayback).                    *)
(*                                                                         *)
(* Units.  Amplitudes are integers in thousandths (1000 = full scale), so  *)
(* that 20*log10 is exact on powers of ten.  Time (Date.now()) and audio   *)
(* durations share one unit: a chunk of SampleRate samples lasts one unit  *)
(* and arrives one unit after the previous chunk.                          *)
(*                                                                         *)
(* A handler of the source is an operator from the whole program state (a  *)
(* record s) to the program state after the handler returned; an action    *)
(* applies one handler.  An await that can really suspend (getUserMedia,   *)
(* AudioContext.resume) leaves a record in `pending`; its continuation is  *)
(* a separate action.                                                      *)
(***************************************************************************)
EXTENDS Integers, Sequences, FiniteSets, TLC

VARIABLES
  state,          \* VocalMirror.state
  isInitialized,  \* VocalMirror.isInitialized
  buffer,         \* AudioBuffer fields
  analyzer,       \* AudioAnalyzer fields
  recorder,       \* AudioRecorder fields
  playback,       \* AudioPlayback fields
  sink,           \* the audio sink: sources sounding, 'ended' events queued
  now,            \* Date.now()
  pending,        \* suspended async operations, oldest first
  out,            \* calls and notifications made by the last step, in order
  env,            \* construction options and the host environment
  commands,       \* number of user-interface commands issued so far
  history         \* component specifications only: the calls made on the
                  \* component since it was constructed, in order

vars == <<state, isInitialized, buffer, analyzer, recorder, playback, sink,
          now, pending, out, env, commands, history>>

----------------------------------------------------------------------------
(* Bounds of the model *)

MaxChunks == 4
MaxCommands == 2
MaxPending == 2
MaxSources == 2
MaxCalls == 5
SampleRate == 1
MaxRecordingDuration == 3
SilenceUnit == 1

(* Program constants *)

NegInfinity == -100000
DEFAULT_VOLUME_THRESHOLD == -50

BufferSizes == {1 * SampleRate, 2 * SampleRate}
Amplitudes == {0, 10}
Thresholds == {DEFAULT_VOLUME_THRESHOLD, -30}
SilenceDurations == {SilenceUnit, SilenceUnit + 1}
States == {"ready", "listening", "recording", "playing", "error"}
ActiveStates == {"listening", "recording", "playing"}

(* An optional field of an options object: <<>> is undefined, <<v>> is v *)
Undefined == <<>>
Some(v) == <<v>>

----------------------------------------------------------------------------
(* Notifications and collaborator calls made during a step *)

Ev(t, a, b) == [t |-> t, a |-> a, b |-> b]

emit(s, e) == [s EXCEPT !.out = Append(@, e)]

Has(t) == \E i \in 1..Len(out) : out[i].t = t

HasEv(t, a) == \E i \in 1..Len(out) : out[i].t = t /\ out[i].a = a

Count(t) == Cardinality({i \in 1..Len(out) : out[i].t = t})

(* the last step entered handler `name`; Before is the state it found *)
Called(name) == out # <<>> /\ out[1].t = "call" /\ out[1].a = name

Before == out[1].b

(* the last step handled a chunk classified non-silent / silent *)
Loud == \E i \in 1..Len(out) : out[i].t = "onVolumeUpdate" /\ ~out[i].b

Quiet == \E i \in 1..Len(out) : out[i].t = "onVolumeUpdate" /\ out[i].b

(* the last step changed the controller's state to `newState` at some point *)
Entered(newState) ==
  \E i \in 1..Len(out) : out[i].t = "stateChange" /\ out[i].b = newState

----------------------------------------------------------------------------
(* AudioBuffer *)

RECURSIVE SumDuration(_)
SumDuration(chunks) ==
  IF chunks = <<>> THEN 0 ELSE Head(chunks).duration + SumDuration(Tail(chunks))

RECURSIVE SumLength(_)
SumLength(chunks) ==
  IF chunks = <<>> THEN 0 ELSE Len(Head(chunks).data) + SumLength(Tail(chunks))

RECURSIVE Concat(_)
Concat(chunks) ==
  IF chunks = <<>> THEN <<>> ELSE Head(chunks).data \o Concat(Tail(chunks))

NewBuffer(maxDurationSeconds) ==
  [maxDurationSeconds |-> maxDurationSeconds, chunks |-> <<>>,
   currentDuration |-> 0, discardSilence |-> FALSE, hasReceivedAudio |-> FALSE]

(* enforceMaxDuration() without the `chunks.length > 1` guard *)
RECURSIVE enforceMaxDuration_dropsAll(_)
enforceMaxDuration_dropsAll(b) ==
  IF b.currentDuration > b.maxDurationSeconds /\ Len(b.chunks) > 0
  THEN enforceMaxDuration_dropsAll([b EXCEPT !.chunks = Tail(@),
                                             !.currentDuration = @ - Head(b.chunks).duration])
  ELSE b

(* enforceMaxDuration() that removes with pop() instead of shift() *)
RECURSIVE enforceMaxDuration_popsNewest(_)
enforceMaxDuration_popsNewest(b) ==
  IF b.currentDuration > b.maxDurationSeconds /\ Len(b.chunks) > 1
  THEN enforceMaxDuration_popsNewest(
         [b EXCEPT !.chunks = SubSeq(@, 1, Len(@) - 1),
                   !.currentDuration = @ - b.chunks[Len(b.chunks)].duration])
  ELSE b

(* enforceMaxDuration() that drops chunks without subtracting their duration *)
RECURSIVE enforceMaxDuration_keepsDuration(_)
enforceMaxDuration_keepsDuration(b) ==
  IF b.currentDuration > b.maxDurationSeconds /\ Len(b.chunks) > 1
  THEN enforceMaxDuration_keepsDuration([b EXCEPT !.chunks = Tail(@)])
  ELSE b

RECURSIVE enforceMaxDuration(_)
enforceMaxDuration(b) ==
  IF b.currentDuration > b.maxDurationSeconds /\ Len(b.chunks) > 1
  THEN enforceMaxDuration([b EXCEPT !.chunks = Tail(@),
                                    !.currentDuration = @ - Head(b.chunks).duration])
  ELSE b

(* addData() that never sets hasReceivedAudio *)
addData_forgetsAudio(b, audioData, sampleRate, isSilent, timestamp) ==
  IF b.discardSilence /\ ~b.hasReceivedAudio /\ isSilent
  THEN b
  ELSE LET chunkDuration == Len(audioData) \div sampleRate
       IN enforceMaxDuration(
            [b EXCEPT !.chunks = Append(@, [data |-> audioData,
                                             duration |-> chunkDuration,
                                             timestamp |-> timestamp]),
                      !.currentDuration = @ + chunkDuration])

addData(b, audioData, sampleRate, isSilent, timestamp) ==
  IF b.discardSilence /\ ~b.hasReceivedAudio /\ isSilent
  THEN b
  ELSE LET chunkDuration == Len(audioData) \div sampleRate
           b1 == IF b.discardSilence /\ ~b.hasReceivedAudio
                 THEN [b EXCEPT !.hasReceivedAudio = TRUE] ELSE b
       IN enforceMaxDuration(
            [b1 EXCEPT !.chunks = Append(@, [data |-> audioData,
                                              duration |-> chunkDuration,
                                              timestamp |-> timestamp]),
                       !.currentDuration = @ + chunkDuration])

getAllData(b) == IF Len(b.chunks) = 0 THEN <<>> ELSE Concat(b.chunks)

(* clear() that leaves the non-silent-seen flag as it is *)
clear_keepsAudioFlag(b) == [b EXCEPT !.chunks = <<>>, !.currentDuration = 0]

clear(b) == [b EXCEPT !.chunks = <<>>, !.currentDuration = 0, !.hasReceivedAudio = FALSE]

setDiscardInitialSilence(b, discard) ==
  [b EXCEPT !.discardSilence = discard,
            !.hasReceivedAudio = IF discard THEN FALSE ELSE @]

getDuration(b) == b.currentDuration

getSampleCount(b) == SumLength(b.chunks)

----------------------------------------------------------------------------
(* AudioAnalyzer: pure parts *)

RECURSIVE SumSquares(_)
SumSquares(audioData) ==
  IF audioData = <<>> THEN 0
  ELSE Head(audioData) * Head(audioData) + SumSquares(Tail(audioData))

ISqrt(x) == CHOOSE r \in 0..x : r * r <= x /\ (r + 1) * (r + 1) > x

RECURSIVE Log10(_)
Log10(a) == IF a < 10 THEN 0 ELSE 1 + Log10(a \div 10)

calculateVolume(audioData) == ISqrt(SumSquares(audioData) \div Len(audioData))

amplitudeToDb(amplitude) ==
  IF amplitude = 0 THEN NegInfinity ELSE 20 * Log10(amplitude) - 60

(* isSilent() with a non-strict comparison *)
isSilent_orEqual(an, volumeDb) == volumeDb <= an.volumeThreshold

isSilent(an, volumeDb) == volumeDb < an.volumeThreshold

NewAnalyzer(volumeThreshold, silenceDuration) ==
  [volumeThreshold |-> volumeThreshold, silenceDuration |-> silenceDuration,
   isCurrentlySilent |-> FALSE, silenceStartTime |-> 0]

analyzerUpdateSettings(an, options) ==
  [an EXCEPT !.volumeThreshold = IF options.volumeThreshold # Undefined
                                 THEN options.volumeThreshold[1] ELSE @,
             !.silenceDuration = IF options.silenceDuration # Undefined
                                 THEN options.silenceDuration[1] ELSE @]

(* reset() that leaves the silence tracking as it is *)
reset_keepsTimer(an) == an

reset(an) == [an EXCEPT !.isCurrentlySilent = FALSE, !.silenceStartTime = 0]

----------------------------------------------------------------------------
(* Error kinds and messages (config: ERROR_TYPES, ERROR_MESSAGES) *)

ERROR_TYPES ==
  [INITIALIZATION |-> "initialization", RECORDING |-> "recording",
   PLAYBACK |-> "playback", LISTENING |-> "listening",
   AUTO_LISTENING |-> "auto-listening"]

ERROR_MESSAGES ==
  [INITIALIZATION |-> "Failed to initialize audio components",
   AUDIO_NOT_SUPPORTED |-> "Audio recording/playback not supported",
   RECORDING_FAILED |-> "Failed to start recording",
   PLAYBACK_FAILED |-> "Failed to play audio",
   PLAYBACK_INIT_FAILED |-> "Failed to initialize audio playback",
   AUTO_LISTENING_FAILED |-> "Failed to automatically start listening"]

----------------------------------------------------------------------------
(* The program state as one record, and suspended operations *)

Cur ==
  [state |-> state, isInitialized |-> isInitialized, buffer |-> buffer,
   analyzer |-> analyzer, recorder |-> recorder, playback |-> playback,
   sink |-> sink, now |-> now, pending |-> pending, out |-> <<>>, env |-> env,
   commands |-> commands, overflow |-> FALSE]

Apply(s) ==
  /\ ~s.overflow
  /\ state' = s.state
  /\ isInitialized' = s.isInitialized
  /\ buffer' = s.buffer
  /\ analyzer' = s.analyzer
  /\ recorder' = s.recorder
  /\ playback' = s.playback
  /\ sink' = s.sink
  /\ now' = s.now
  /\ pending' = s.pending
  /\ out' = s.out
  /\ env' = s.env
  /\ commands' = s.commands
  /\ history' = history

(* op: the primitive awaited; k: the async function that continues after it;
   ok: playback.initialize()'s result, held by Promise.all; data: the samples
   of a suspended playAudio; stale: the AudioContext whose resume() is awaited
   is no longer the driver's audioContext *)
Op(op, k, ok, data) == [op |-> op, k |-> k, ok |-> ok, data |-> data, stale |-> FALSE]

(* the driver dropped its AudioContext (cleanup) or replaced it (initialize) *)
dropContext(s, op) ==
  [s EXCEPT !.pending = [i \in 1..Len(@) |->
                           IF @[i].op = op THEN [@[i] EXCEPT !.stale = TRUE] ELSE @[i]]]

suspend(s, p) ==
  IF Len(s.pending) >= MaxPending
  THEN [s EXCEPT !.overflow = TRUE]
  ELSE [s EXCEPT !.pending = Append(@, p)]

(* the promises of one primitive settle in the order of the calls *)
Oldest(ops, i) == \A j \in 1..(i - 1) : ops[j].op # ops[i].op

settle(s, i) ==
  [s EXCEPT !.pending = SubSeq(@, 1, i - 1) \o SubSeq(@, i + 1, Len(@))]

Awaiting(op) == \E i \in 1..Len(pending) : pending[i].op = op /\ ~pending[i].stale

----------------------------------------------------------------------------
(* VocalMirror: setState, handleError *)

(* setState() that does not notify when the state does not change *)
setState_silentSelf(s, newState) ==
  IF s.state = newState
  THEN s
  ELSE emit([s EXCEPT !.state = newState], Ev("stateChange", s.state, newState))

setState(s, newState) ==
  emit([s EXCEPT !.state = newState], Ev("stateChange", s.state, newState))

handleError(s, type, message) ==
  emit(setState(s, "error"), Ev("error", type, message))

handleRecorderError(s, type, message) == handleError(s, type, message)

handlePlaybackError(s, type, message) == handleError(s, type, message)

----------------------------------------------------------------------------
(* AudioRecorder: notifyStateChange, stopRecording *)

(* the recorder's onStateChange callback: VocalMirror.handleRecorderStateChange
   does nothing with it *)
notifyStateChange(s, recorderState) == emit(s, Ev("recorder.onStateChange", recorderState, ""))

recorderStopRecording(s) ==
  LET s0 == emit(s, Ev("recorder.stopRecording", "", ""))
  IN IF s0.recorder.isRecording
     THEN notifyStateChange([s0 EXCEPT !.recorder.isRecording = FALSE], "stopped")
     ELSE s0

----------------------------------------------------------------------------
(* AudioPlayback *)

FreshSource(s) ==
  LET used == s.sink.sounding \cup s.sink.ended \cup {s.playback.currentSource}
      free == (1..MaxSources) \ used
  IN IF free = {} THEN 0 ELSE CHOOSE n \in free : \A m \in free : n <= m

(* AudioBufferSourceNode.stop(): the source falls silent and the sink queues
   its 'ended' event *)
sourceStop(s, src) ==
  IF src \in s.sink.sounding
  THEN [s EXCEPT !.sink.sounding = @ \ {src}, !.sink.ended = @ \cup {src}]
  ELSE s

playbackStop(s) ==
  LET s1 == IF s.playback.currentSource # 0 /\ s.playback.isPlaying
            THEN emit(sourceStop(s, s.playback.currentSource),
                      Ev("onPlaybackInterrupted", s.playback.currentSource, ""))
            ELSE s
  IN [s1 EXCEPT !.playback.isPlaying = FALSE, !.playback.currentSource = 0]

playbackCleanup(s) ==
  LET s1 == IF s.playback.currentSource # 0 /\ s.playback.isPlaying
            THEN sourceStop(s, s.playback.currentSource)
            ELSE s
  IN dropContext([s1 EXCEPT !.playback.isPlaying = FALSE, !.playback.currentSource = 0,
                                !.playback.audioContext = "none"],
                 "playback.resume")

(* o.pbInit: whether new AudioContext() succeeds; o.ctx: the new context's state *)
playbackInitialize(s, o) ==
  IF o.pbInit = "ok"
  THEN [dropContext(s, "playback.resume") EXCEPT !.playback.audioContext = o.ctx]
  ELSE handlePlaybackError(emit(s, Ev("failure", "initialization", "playback")),
                           "initialization", ERROR_MESSAGES.PLAYBACK_INIT_FAILED)

(* playAudio that, when the sink refuses the source, reports the failure and
   then tries once more *)
playAudioStart_retries(s, audioData, result) ==
  IF result = "ok" /\ s.playback.audioContext # "none" /\ FreshSource(s) # 0
  THEN LET src == FreshSource(s)
       IN emit([s EXCEPT !.sink.sounding = @ \cup {src},
                         !.playback.currentSource = src,
                         !.playback.isPlaying = TRUE],
               Ev("onPlaybackStart", src, audioData))
  ELSE IF result = "ok" /\ s.playback.audioContext # "none"
  THEN [s EXCEPT !.overflow = TRUE]
  ELSE setState(
         emit(handlePlaybackError(emit(s, Ev("failure", "playback-start", "")),
                                  ERROR_TYPES.PLAYBACK, ERROR_MESSAGES.PLAYBACK_FAILED),
              Ev("playAudio", audioData, "")),
         "ready")

(* playAudio from createAudioBuffer on (lines 67-93), followed by the caller's
   `if (!started) this.setState('ready')`.  result: what the sink does. *)
playAudioStart(s, audioData, result) ==
  IF result = "ok" /\ s.playback.audioContext # "none" /\ FreshSource(s) # 0
  THEN LET src == FreshSource(s)
       IN emit([s EXCEPT !.sink.sounding = @ \cup {src},
                         !.playback.currentSource = src,
                         !.playback.isPlaying = TRUE],
               Ev("onPlaybackStart", src, audioData))
  ELSE IF result = "ok" /\ s.playback.audioContext # "none"
  THEN [s EXCEPT !.overflow = TRUE]
  ELSE setState(
         handlePlaybackError(emit(s, Ev("failure", "playback-start", "")),
                             ERROR_TYPES.PLAYBACK, ERROR_MESSAGES.PLAYBACK_FAILED),
         "ready")

(* playAudio up to its await (lines 57-65), called by doTriggerPlayback *)
playAudio(s, audioData, o) ==
  LET s0 == emit(s, Ev("playAudio", audioData, ""))
      s1 == IF s0.playback.audioContext = "none" THEN playbackInitialize(s0, o) ELSE s0
  IN IF s1.playback.audioContext = "none"
     THEN setState(s1, "ready")
     ELSE LET s2 == playbackStop(s1)
          IN IF s2.playback.audioContext = "suspended"
             THEN suspend(s2, Op("playback.resume", "doTriggerPlayback", TRUE, audioData))
             ELSE playAudioStart(s2, audioData, o.pb)

----------------------------------------------------------------------------
(* VocalMirror: doTriggerPlayback, handleSilenceDetected *)

(* doTriggerPlayback() that stops capture before it plays *)
doTriggerPlayback_stopsCapture(s, o) ==
  IF getDuration(s.buffer) = 0
  THEN s
  ELSE playAudio(setState(recorderStopRecording(s), "playing"), getAllData(s.buffer), o)

(* doTriggerPlayback() without the test of the buffer's duration *)
doTriggerPlayback_noGuard(s, o) ==
  playAudio(setState(s, "playing"), getAllData(s.buffer), o)

doTriggerPlayback(s, o) ==
  IF getDuration(s.buffer) = 0
  THEN s
  ELSE playAudio(setState(s, "playing"), getAllData(s.buffer), o)

(* handleSilenceDetected() that also acts on silence during playback *)
handleSilenceDetected_inPlaying(s, o) ==
  IF s.state \in {"recording", "playing"} THEN doTriggerPlayback(s, o) ELSE s

handleSilenceDetected(s, o) ==
  IF s.state = "recording" THEN doTriggerPlayback(s, o) ELSE s

handleVolumeChange(s, volumeDb, silent) == emit(s, Ev("onVolumeUpdate", volumeDb, silent))

----------------------------------------------------------------------------
(* AudioAnalyzer: trackSilence, analyze *)

trackSilence_keepsTimer(s, silent, o) ==
  IF silent
  THEN LET s1 == IF ~s.analyzer.isCurrentlySilent
                 THEN [s EXCEPT !.analyzer.silenceStartTime = s.now,
                                !.analyzer.isCurrentlySilent = TRUE]
                 ELSE s
           silenceDurationMs == s1.now - s1.analyzer.silenceStartTime
       IN IF silenceDurationMs >= s1.analyzer.silenceDuration
          THEN handleSilenceDetected(emit(s1, Ev("onSilenceDetected", silenceDurationMs, s1.now)), o)
          ELSE s1
  ELSE [s EXCEPT !.analyzer.isCurrentlySilent = FALSE]

(* trackSilence() in which a non-silent chunk leaves the flag set *)
trackSilence_keepsFlag(s, silent, o) ==
  IF silent
  THEN LET s1 == IF ~s.analyzer.isCurrentlySilent
                 THEN [s EXCEPT !.analyzer.silenceStartTime = s.now,
                                !.analyzer.isCurrentlySilent = TRUE]
                 ELSE s
           silenceDurationMs == s1.now - s1.analyzer.silenceStartTime
       IN IF silenceDurationMs >= s1.analyzer.silenceDuration
          THEN [handleSilenceDetected(emit(s1, Ev("onSilenceDetected", silenceDurationMs, s1.now)), o)
                  EXCEPT !.analyzer.silenceStartTime = s1.now]
          ELSE s1
  ELSE s

trackSilence(s, silent, o) ==
  IF silent
  THEN LET s1 == IF ~s.analyzer.isCurrentlySilent
                 THEN [s EXCEPT !.analyzer.silenceStartTime = s.now,
                                !.analyzer.isCurrentlySilent = TRUE]
                 ELSE s
           silenceDurationMs == s1.now - s1.analyzer.silenceStartTime
       IN IF silenceDurationMs >= s1.analyzer.silenceDuration
          THEN [handleSilenceDetected(emit(s1, Ev("onSilenceDetected", silenceDurationMs, s1.now)), o)
                  EXCEPT !.analyzer.silenceStartTime = s1.now]
          ELSE s1
  ELSE [s EXCEPT !.analyzer.isCurrentlySilent = FALSE]

(* analyze() that reports the volume of audible chunks only *)
analyze_quietWhenSilent(s, audioData, o) ==
  LET volumeDb == amplitudeToDb(calculateVolume(audioData))
      silent == isSilent(s.analyzer, volumeDb)
  IN IF silent
     THEN trackSilence(s, silent, o)
     ELSE handleVolumeChange(trackSilence(s, silent, o), volumeDb, silent)

analyze(s, audioData, o) ==
  LET volumeDb == amplitudeToDb(calculateVolume(audioData))
      silent == isSilent(s.analyzer, volumeDb)
  IN handleVolumeChange(trackSilence(s, silent, o), volumeDb, silent)

----------------------------------------------------------------------------
(* AudioRecorder: cleanup, initialize, startRecording *)

recorderCleanup(s) ==
  notifyStateChange(
    dropContext([recorderStopRecording(s) EXCEPT !.recorder.audioContext = "none",
                                                 !.recorder.isInitialized = FALSE],
                "recorder.resume"),
    "cleanup")

(* startRecording() that goes to listening without clearing the buffer *)
afterRecorderStart_keepsBuffer(s, k, started) ==
  LET s0 == emit(s, Ev("started", k, started))
  IN IF k = "startRecording"
     THEN IF started
          THEN setState([s0 EXCEPT !.buffer = setDiscardInitialSilence(@, TRUE),
                                   !.analyzer = reset(@)], "listening")
          ELSE s0
     ELSE setState(s0, IF started THEN "listening" ELSE "ready")

(* the continuation of VocalMirror.startRecording / autoStartListening after
   `await this.recorder.startRecording()`; the log records what the recorder
   returned to which caller *)
afterRecorderStart(s, k, started) ==
  LET s0 == emit(s, Ev("started", k, started))
  IN IF k = "startRecording"
     THEN IF started
          THEN setState([s0 EXCEPT !.buffer = setDiscardInitialSilence(clear(@), TRUE),
                                   !.analyzer = reset(@)], "listening")
          ELSE s0
     ELSE setState(s0, IF started THEN "listening" ELSE "ready")

FailureKind(k) == IF k = "startRecording" THEN "capture-start" ELSE "re-arm"

(* AudioRecorder.startRecording after its await of resume() (lines 68-79) *)
recorderStartFinish(s, k, result) ==
  IF result = "ok"
  THEN afterRecorderStart(
         notifyStateChange(
           [s EXCEPT !.recorder.isRecording = TRUE,
                     !.recorder.audioContext = IF @ = "none" THEN @ ELSE "running"],
           "recording"),
         k, TRUE)
  ELSE afterRecorderStart(
         handleRecorderError(emit(s, Ev("failure", FailureKind(k), "")),
                             ERROR_TYPES.RECORDING, ERROR_MESSAGES.RECORDING_FAILED),
         k, FALSE)

(* AudioRecorder.startRecording up to its first await (lines 60-66) *)
recorderStartRecording(s, k) ==
  LET s0 == emit(s, Ev("recorder.startRecording", k, ""))
  IN IF ~s0.recorder.isInitialized
     THEN suspend(s0, Op("getUserMedia", k, TRUE, <<>>))
     ELSE IF s0.recorder.audioContext = "suspended"
     THEN suspend(s0, Op("recorder.resume", k, TRUE, <<>>))
     ELSE recorderStartFinish(s0, k, "ok")

(* AudioRecorder.initialize after getUserMedia settled (lines 41-57) *)
recorderInitializeFinish(s, o) ==
  IF o.media = "ok"
  THEN notifyStateChange(
         [dropContext(s, "recorder.resume") EXCEPT !.recorder.audioContext = o.ctx,
                                                   !.recorder.isInitialized = TRUE],
         "initialized")
  ELSE handleRecorderError(emit(s, Ev("failure", "initialization", "recorder")),
                           ERROR_TYPES.INITIALIZATION, ERROR_MESSAGES.INITIALIZATION)

----------------------------------------------------------------------------
(* VocalMirror: initialize, startRecording, autoStartListening *)

(* initialize() up to `await Promise.all` (lines 72-81); k is "initialize" for
   a direct call and "initialize+start" when startRecording awaits it *)
initialize(s, k, o) ==
  IF ~s.env.isSupported
  THEN handleError(emit(emit(s, Ev("initialize", "", "")),
                        Ev("failure", "initialization", "unsupported")),
                   ERROR_TYPES.INITIALIZATION, ERROR_MESSAGES.AUDIO_NOT_SUPPORTED)
  ELSE LET s1 == playbackInitialize(emit(s, Ev("initialize", "", "")), o)
       IN suspend(s1, Op("getUserMedia", k, o.pbInit = "ok", <<>>))

(* initialize() after Promise.all settled (lines 83-98); for k =
   "initialize+start", startRecording then goes on (lines 109-126) *)
initializeFinish(s, k, playbackOk, o) ==
  LET s1 == recorderInitializeFinish(s, o)
  IN IF o.media # "ok" \/ ~playbackOk
     THEN handleError(s1, ERROR_TYPES.INITIALIZATION, ERROR_MESSAGES.INITIALIZATION)
     ELSE LET s2 == setState([s1 EXCEPT !.isInitialized = TRUE], "ready")
          IN IF k = "initialize+start"
             THEN recorderStartRecording(s2, "startRecording")
             ELSE s2

startRecording(s, o) ==
  IF ~s.isInitialized
  THEN initialize(s, "initialize+start", o)
  ELSE recorderStartRecording(s, "startRecording")

(* autoStartListening() that forgets `this.analyzer?.reset()` *)
autoStartListening_noReset(s) ==
  recorderStartRecording(
    [s EXCEPT !.buffer = setDiscardInitialSilence(clear(@), TRUE)],
    "autoStartListening")

autoStartListening(s) ==
  recorderStartRecording(
    [s EXCEPT !.buffer = setDiscardInitialSilence(clear(@), TRUE),
              !.analyzer = reset(@)],
    "autoStartListening")

handlePlaybackEnd(s) == autoStartListening(s)

----------------------------------------------------------------------------
(* VocalMirror: handleAudioData *)

transitionToRecording(s) ==
  IF s.state = "listening" THEN setState(s, "recording") ELSE s

(* handleAudioData() whose playing branch re-arms without stopping playback *)
handleAudioData_keepsPlaying(s, audioData, sampleRate, o) ==
  IF s.state \notin ActiveStates
  THEN s
  ELSE LET silent == isSilent(s.analyzer, amplitudeToDb(calculateVolume(audioData)))
           isAboveThreshold == ~silent
           s1 == analyze(s, audioData, o)
           add(x) == [x EXCEPT !.buffer = addData(@, audioData, sampleRate, silent, x.now)]
       IN IF s1.state = "listening"
          THEN IF isAboveThreshold THEN add(transitionToRecording(s1)) ELSE s1
          ELSE IF s1.state = "recording"
          THEN LET s2 == add(s1)
               IN IF getDuration(s2.buffer) >= s2.env.maxRecordingDuration
                  THEN doTriggerPlayback(s2, o)
                  ELSE s2
          ELSE IF s1.state = "playing"
          THEN IF isAboveThreshold THEN autoStartListening(s1) ELSE s1
          ELSE s1

(* handleAudioData() whose playing branch tests the volume against the
   default threshold instead of the analyzer's current one *)
handleAudioData_fixedThreshold(s, audioData, sampleRate, o) ==
  IF s.state \notin ActiveStates
  THEN s
  ELSE LET volumeDb == amplitudeToDb(calculateVolume(audioData))
           silent == isSilent(s.analyzer, volumeDb)
           isAboveThreshold == ~silent
           s1 == analyze(s, audioData, o)
           add(x) == [x EXCEPT !.buffer = addData(@, audioData, sampleRate, silent, x.now)]
       IN IF s1.state = "listening"
          THEN IF isAboveThreshold THEN add(transitionToRecording(s1)) ELSE s1
          ELSE IF s1.state = "recording"
          THEN LET s2 == add(s1)
               IN IF getDuration(s2.buffer) >= s2.env.maxRecordingDuration
                  THEN doTriggerPlayback(s2, o)
                  ELSE s2
          ELSE IF s1.state = "playing"
          THEN IF volumeDb >= DEFAULT_VOLUME_THRESHOLD
               THEN autoStartListening(playbackStop(emit(s1, Ev("playback.stop", "", ""))))
               ELSE s1
          ELSE s1

(* handleAudioData() that buffers a chunk in recording before it analyzes it *)
handleAudioData_buffersFirst(s, audioData, sampleRate, o) ==
  IF s.state \notin ActiveStates
  THEN s
  ELSE LET silent == isSilent(s.analyzer, amplitudeToDb(calculateVolume(audioData)))
           isAboveThreshold == ~silent
           add(x) == [x EXCEPT !.buffer = addData(@, audioData, sampleRate, silent, x.now)]
           s0 == IF s.state = "recording" THEN add(s) ELSE s
           s1 == analyze(s0, audioData, o)
       IN IF s1.state = "listening"
          THEN IF isAboveThreshold THEN add(transitionToRecording(s1)) ELSE s1
          ELSE IF s1.state = "recording"
          THEN IF getDuration(s1.buffer) >= s1.env.maxRecordingDuration
               THEN doTriggerPlayback(s1, o)
               ELSE s1
          ELSE IF s1.state = "playing"
          THEN IF isAboveThreshold
               THEN autoStartListening(playbackStop(emit(s1, Ev("playback.stop", "", ""))))
               ELSE s1
          ELSE s1

(* handleAudioData() that returns early only in error, so that a chunk in
   ready is analyzed *)
handleAudioData_analyzesInReady(s, audioData, sampleRate, o) ==
  IF s.state = "error"
  THEN s
  ELSE LET silent == isSilent(s.analyzer, amplitudeToDb(calculateVolume(audioData)))
           isAboveThreshold == ~silent
           s1 == analyze(s, audioData, o)
           add(x) == [x EXCEPT !.buffer = addData(@, audioData, sampleRate, silent, x.now)]
       IN IF s1.state = "listening"
          THEN IF isAboveThreshold THEN add(transitionToRecording(s1)) ELSE s1
          ELSE IF s1.state = "recording"
          THEN LET s2 == add(s1)
               IN IF getDuration(s2.buffer) >= s2.env.maxRecordingDuration
                  THEN doTriggerPlayback(s2, o)
                  ELSE s2
          ELSE IF s1.state = "playing"
          THEN IF isAboveThreshold
               THEN autoStartListening(playbackStop(emit(s1, Ev("playback.stop", "", ""))))
               ELSE s1
          ELSE s1

handleAudioData(s, audioData, sampleRate, o) ==
  IF s.state \notin ActiveStates
  THEN s
  ELSE LET silent == isSilent(s.analyzer, amplitudeToDb(calculateVolume(audioData)))
           isAboveThreshold == ~silent
           s1 == analyze(s, audioData, o)
           add(x) == [x EXCEPT !.buffer = addData(@, audioData, sampleRate, silent, x.now)]
       IN IF s1.state = "listening"
          THEN IF isAboveThreshold THEN add(transitionToRecording(s1)) ELSE s1
          ELSE IF s1.state = "recording"
          THEN LET s2 == add(s1)
               IN IF getDuration(s2.buffer) >= s2.env.maxRecordingDuration
                  THEN doTriggerPlayback(s2, o)
                  ELSE s2
          ELSE IF s1.state = "playing"
          THEN IF isAboveThreshold
               THEN autoStartListening(playbackStop(emit(s1, Ev("playback.stop", "", ""))))
               ELSE s1
          ELSE s1

----------------------------------------------------------------------------
(* VocalMirror: the other public methods *)

(* stop() that forgets `this.buffer?.clear()` *)
stop_keepsBuffer(s) ==
  LET s1 == IF s.state \in {"listening", "recording"}
            THEN recorderStopRecording(s)
            ELSE IF s.state = "playing"
            THEN playbackStop(emit(s, Ev("playback.stop", "", "")))
            ELSE s
  IN setState(s1, "ready")

(* stop() that returns early when the state is error *)
stop_sparesError(s) ==
  IF s.state = "error"
  THEN s
  ELSE LET s1 == IF s.state \in {"listening", "recording"}
                 THEN recorderStopRecording(s)
                 ELSE IF s.state = "playing"
                 THEN playbackStop(emit(s, Ev("playback.stop", "", "")))
                 ELSE s
       IN setState([s1 EXCEPT !.buffer = clear(@)], "ready")

stop(s) ==
  LET s1 == IF s.state \in {"listening", "recording"}
            THEN recorderStopRecording(s)
            ELSE IF s.state = "playing"
            THEN playbackStop(emit(s, Ev("playback.stop", "", "")))
            ELSE s
  IN setState([s1 EXCEPT !.buffer = clear(@)], "ready")

(* stopRecording() and triggerPlayback() call each other while the state is
   recording, and neither changes the state: the call stack overflows *)
stopRecording(s) ==
  IF s.state = "recording"
  THEN emit(recorderStopRecording(s), Ev("throw", "RangeError", ""))
  ELSE s

triggerPlayback(s, o) ==
  IF s.state = "recording" THEN stopRecording(s) ELSE doTriggerPlayback(s, o)

(* updateSettings() that also restarts the analyzer's silence tracking *)
updateSettings_resetsAnalyzer(s, options) ==
  emit([s EXCEPT !.analyzer = reset(analyzerUpdateSettings(@,
          [volumeThreshold |-> options.volumeThreshold,
           silenceDuration |-> options.silenceDuration]))],
       Ev("analyzer.updateSettings", options.volumeThreshold, options.silenceDuration))

updateSettings(s, options) ==
  emit([s EXCEPT !.analyzer = analyzerUpdateSettings(@,
          [volumeThreshold |-> options.volumeThreshold,
           silenceDuration |-> options.silenceDuration])],
       Ev("analyzer.updateSettings", options.volumeThreshold, options.silenceDuration))

(* cleanup() that forgets `this.isInitialized = false` *)
cleanup_keepsInitialized(s) ==
  LET s1 == playbackCleanup(recorderCleanup(s))
  IN setState([s1 EXCEPT !.buffer = clear(@)], "ready")

cleanup(s) ==
  LET s1 == playbackCleanup(recorderCleanup(s))
  IN setState([s1 EXCEPT !.buffer = clear(@), !.isInitialized = FALSE], "ready")

----------------------------------------------------------------------------
(* Initial state: a VocalMirror just constructed (constructor, lines 36-70) *)

Environments ==
  [maxRecordingDuration : {MaxRecordingDuration}, bufferSize : BufferSizes,
   isSupported : BOOLEAN]

Init ==
  /\ state = "ready"
  /\ isInitialized = FALSE
  /\ env \in Environments
  /\ buffer = NewBuffer(env.maxRecordingDuration)
  /\ analyzer = NewAnalyzer(DEFAULT_VOLUME_THRESHOLD, SilenceUnit)
  /\ recorder = [isRecording |-> FALSE, isInitialized |-> FALSE, audioContext |-> "none"]
  /\ playback = [isPlaying |-> FALSE, currentSource |-> 0, audioContext |-> "none"]
  /\ sink = [sounding |-> {}, ended |-> {}]
  /\ now = 0
  /\ pending = <<>>
  /\ out = <<>>
  /\ commands = 0
  /\ history = <<>>

----------------------------------------------------------------------------
(* What the host environment decides during a step: pb, whether the sink
   accepts a new source; pbInit and media, whether new AudioContext() and
   getUserMedia() succeed; ctx, the state of a context just created *)

O(pb, pbInit, ctx, media) == [pb |-> pb, pbInit |-> pbInit, ctx |-> ctx, media |-> media]

Results == {"ok", "fail"}
ContextStates == {"suspended", "running"}

ChunkDuration == env.bufferSize \div SampleRate

ChunkData(amplitude) == [i \in 1..env.bufferSize |-> amplitude]

----------------------------------------------------------------------------
(* Commands of the user interface *)

(* every step's log opens with the handler entered and the state it found *)
Enter(name) == emit(Cur, Ev("call", name, state))

Command(name) ==
  IF commands < MaxCommands
  THEN [Enter(name) EXCEPT !.commands = @ + 1]
  ELSE [Cur EXCEPT !.overflow = TRUE]

CmdInitialize ==
  \E pbInit \in Results, ctx \in ContextStates :
    Apply(initialize(Command("initialize"), "initialize", O("ok", pbInit, ctx, "ok")))

CmdStartRecording ==
  \E pbInit \in Results, ctx \in ContextStates :
    Apply(startRecording(Command("startRecording"), O("ok", pbInit, ctx, "ok")))

CmdStop == Apply(stop(Command("stop")))

CmdStopRecording == state = "recording" /\ Apply(stopRecording(Command("stopRecording")))

CmdTriggerPlayback ==
  \E pb \in Results : Apply(triggerPlayback(Command("triggerPlayback"), O(pb, "ok", "running", "ok")))

CmdUpdateSettings ==
  \E vt \in {Undefined} \cup {Some(v) : v \in Thresholds},
     sd \in {Undefined} \cup {Some(v) : v \in SilenceDurations} :
    Apply(updateSettings(Command("updateSettings"), [volumeThreshold |-> vt, silenceDuration |-> sd]))

CmdCleanup == Apply(cleanup(Command("cleanup")))

----------------------------------------------------------------------------
(* Events of the capture device, the sink and the suspended operations *)

(* ScriptProcessorNode.onaudioprocess (AudioRecorder.setupAudioNodes) *)
AudioProcess ==
  /\ recorder.audioContext = "running"
  /\ recorder.isRecording
  /\ ~Awaiting("recorder.resume")
  /\ now < MaxChunks * ChunkDuration
  /\ \E amplitude \in Amplitudes, pb \in Results :
       Apply(handleAudioData([Enter("handleAudioData") EXCEPT !.now = now + ChunkDuration],
                             ChunkData(amplitude), SampleRate,
                             O(pb, "ok", "running", "ok")))

(* the browser suspends the capture context *)
ContextSuspend ==
  /\ recorder.audioContext = "running"
  /\ Apply([Enter("suspend") EXCEPT !.recorder.audioContext = "suspended"])

(* a source reaches the end of its samples *)
SourceFinishes ==
  \E src \in sink.sounding :
    Apply([Enter("finish") EXCEPT !.sink.sounding = @ \ {src}, !.sink.ended = @ \cup {src}])

(* currentSource.onended (AudioPlayback.playAudio, lines 72-74) and
   AudioPlayback.handlePlaybackEnd *)
onended(s, src) ==
  LET s1 == [s EXCEPT !.sink.ended = @ \ {src}]
  IN IF s1.playback.isPlaying
     THEN handlePlaybackEnd(
            emit([s1 EXCEPT !.playback.isPlaying = FALSE, !.playback.currentSource = 0],
                 Ev("onPlaybackEnd", src, "")))
     ELSE s1

OnEnded == \E src \in sink.ended : Apply(onended(Enter("onended"), src))

(* the continuation after getUserMedia settled *)
resolveGetUserMedia(s, i, o) ==
  LET p == s.pending[i]
      s0 == settle(s, i)
  IN IF p.k \in {"initialize", "initialize+start"}
     THEN initializeFinish(s0, p.k, p.ok, o)
     ELSE LET s1 == recorderInitializeFinish(s0, o)
          IN IF o.media # "ok"
             THEN afterRecorderStart(s1, p.k, FALSE)
             ELSE IF s1.recorder.audioContext = "suspended"
             THEN suspend(s1, Op("recorder.resume", p.k, TRUE, <<>>))
             ELSE recorderStartFinish(s1, p.k, "ok")

ResolveGetUserMedia ==
  \E i \in 1..Len(pending), media \in Results, ctx \in ContextStates :
    /\ pending[i].op = "getUserMedia"
    /\ Oldest(pending, i)
    /\ Apply(resolveGetUserMedia(Enter("getUserMedia"), i, O("ok", "ok", ctx, media)))

(* the continuation after the capture context's resume() settled *)
ResolveRecorderResume ==
  \E i \in 1..Len(pending), result \in Results :
    /\ pending[i].op = "recorder.resume"
    /\ Oldest(pending, i)
    /\ LET s1 == recorderStartFinish(settle(Enter("recorder.resume"), i), pending[i].k, result)
       IN Apply(IF pending[i].stale
                THEN [s1 EXCEPT !.recorder.audioContext = recorder.audioContext]
                ELSE s1)

(* the continuation after the playback context's resume() settled *)
ResolvePlaybackResume ==
  \E i \in 1..Len(pending), result \in Results :
    /\ pending[i].op = "playback.resume"
    /\ Oldest(pending, i)
    /\ Apply(playAudioStart(
               [settle(Enter("playback.resume"), i) EXCEPT
                  !.playback.audioContext =
                     IF @ = "none" \/ pending[i].stale THEN @ ELSE "running"],
               pending[i].data, result))

Next ==
  \/ CmdInitialize
  \/ CmdStartRecording
  \/ CmdStop
  \/ CmdStopRecording
  \/ CmdTriggerPlayback
  \/ CmdUpdateSettings
  \/ CmdCleanup
  \/ AudioProcess
  \/ ContextSuspend
  \/ SourceFinishes
  \/ OnEnded
  \/ ResolveGetUserMedia
  \/ ResolveRecorderResume
  \/ ResolvePlaybackResume

Spec == Init /\ [][Next]_vars

----------------------------------------------------------------------------
(* Properties *)

UserCommands ==
  {"initialize", "startRecording", "stop", "stopRecording", "triggerPlayback",
   "updateSettings", "cleanup"}

(* C1: stop() called in listening, recording or playing leaves the controller
   in ready with an empty buffer (duration 0, no samples); called in playing
   it also calls stop() on the playback driver. *)
C1_StopFromActive ==
  (Called("stop") /\ Before \in ActiveStates) =>
     /\ state = "ready"
     /\ getDuration(buffer) = 0
     /\ getSampleCount(buffer) = 0
     /\ getAllData(buffer) = <<>>
     /\ (Before = "playing" => Has("playback.stop"))

(* stop() found the controller playing a source, and silenced it *)
C1_Witness ==
  Called("stop") /\ Before = "playing" /\ Has("onPlaybackInterrupted") /\ state = "ready"

(* C2: a step in which an operation fails (initialization, capture start,
   re-arming capture, playback start) reports on the error channel and ends
   in error, not in ready. *)
C2_FailureEndsInError ==
  Has("failure") => (Has("error") /\ state = "error")

(* C3: while the controller is in error, no chunk, no playback lifecycle
   event, no settings update and no completion of a suspended operation
   takes it out of error; only an explicit command of the user can. *)
C3_ErrorIsAbsorbing ==
  [][(state = "error" /\ state' # "error") =>
       (out'[1].a \in UserCommands \ {"updateSettings"} /\ state' = "ready")]_vars

(* C4 as stated: stop() called in error leaves the state error. *)
C4_StopLeavesError ==
  (Called("stop") /\ Before = "error") => state = "error"

(* C4: stop() called in any state, error included, ends in ready. *)
C4_StopAlwaysReady ==
  Called("stop") => state = "ready"

(* stop() found the controller in error *)
C4_Witness ==
  Called("stop") /\ Before = "error" /\ state = "ready"

(* C5: in recording, a chunk that is appended and brings the audio buffered
   so far to the maximum recording duration or beyond forces the controller
   into playing, whatever the chunk duration. *)
C5_MaxDurationForcesPlayback ==
  [][(/\ state = "recording"
      /\ out'[1].a = "handleAudioData"
      /\ buffer'.chunks # buffer.chunks
      /\ getDuration(buffer) + ChunkDuration >= env.maxRecordingDuration)
     => (\E i \in 1..Len(out') : out'[i].t = "stateChange" /\ out'[i].b = "playing")]_vars

BufferEmpty == getDuration(buffer) = 0 /\ getSampleCount(buffer) = 0 /\ buffer.chunks = <<>>

DiscardArmed == buffer.discardSilence /\ ~buffer.hasReceivedAudio

(* the silence run that the chunk arriving at now' extends has lasted the
   configured silence duration *)
SilenceRunReached ==
  LET start == IF analyzer.isCurrentlySilent THEN analyzer.silenceStartTime ELSE now'
  IN now' - start >= analyzer.silenceDuration

(* C6: in recording, the silent chunk with which the silence run reaches the
   silence duration takes the controller to playing and hands the buffered
   samples to the playback driver without stopping the recorder; and no step
   that leaves the controller in playing stops the recorder. *)
C6_SilenceTriggersPlayback ==
  /\ [][(/\ state = "recording"
          /\ out'[1].a = "handleAudioData"
          /\ Quiet'
          /\ SilenceRunReached)
         => (/\ Entered("playing")'
             /\ HasEv("playAudio", getAllData(buffer))'
             /\ getAllData(buffer) # <<>>
             /\ buffer' = buffer
             /\ ~Has("recorder.stopRecording")'
             /\ recorder'.isRecording)]_vars
  /\ [][(state = "playing" /\ state' = "playing" /\ recorder.isRecording)
         => (recorder'.isRecording /\ ~Has("recorder.stopRecording")')]_vars

(* silence ended a recording and the recording is now sounding, with capture on *)
C6_Witness ==
  /\ Called("handleAudioData") /\ Before = "recording" /\ Has("onSilenceDetected")
  /\ state = "playing" /\ Has("onPlaybackStart") /\ recorder.isRecording

(* C7: in playing, one chunk classified non-silent calls stop() on the
   playback driver, clears the buffer, re-arms the discard of leading silence,
   requests capture from the recorder and ends in listening. *)
C7_LoudChunkInterrupts ==
  (Called("handleAudioData") /\ Before = "playing" /\ Loud) =>
     /\ Has("playback.stop")
     /\ ~playback.isPlaying
     /\ BufferEmpty
     /\ DiscardArmed
     /\ HasEv("recorder.startRecording", "autoStartListening")
     /\ state = "listening"

(* a loud chunk silenced a sounding source *)
C7_Witness ==
  /\ Called("handleAudioData") /\ Before = "playing" /\ Loud
  /\ Has("onPlaybackInterrupted") /\ state = "listening"

StartSucceeded ==
  \E i \in 1..Len(out) : out[i] = Ev("started", "startRecording", TRUE)

(* C8: when the capture start of a start command succeeds the controller is
   in listening with a cleared buffer; silent chunks leave that listening
   state and its buffer as they are; the first non-silent chunk takes the
   controller to recording, and the buffer then holds exactly that chunk. *)
C8_StartThenFirstLoudChunk ==
  /\ [](StartSucceeded => (state = "listening" /\ BufferEmpty /\ DiscardArmed))
  /\ [][(state = "listening" /\ BufferEmpty /\ out'[1].a = "handleAudioData" /\ Quiet')
         => (state' = "listening" /\ buffer' = buffer)]_vars
  /\ [][(state = "listening" /\ BufferEmpty /\ out'[1].a = "handleAudioData" /\ Loud')
         => (/\ state' = "recording"
             /\ Len(buffer'.chunks) = 1
             /\ buffer'.chunks[1].timestamp = now'
             /\ getSampleCount(buffer') = env.bufferSize
             /\ \E amplitude \in Amplitudes :
                   /\ getAllData(buffer') = ChunkData(amplitude)
                   /\ ~isSilent(analyzer, amplitudeToDb(calculateVolume(ChunkData(amplitude)))))]_vars

(* the first loud chunk after a successful start *)
C8_Witness ==
  /\ Called("handleAudioData") /\ Before = "listening" /\ Loud
  /\ state = "recording" /\ commands = 1

RearmSucceeded ==
  \E i \in 1..Len(out) : out[i] = Ev("started", "autoStartListening", TRUE)

(* C9: when a source ends by itself while the controller is in playing, the
   buffer is cleared, the discard of leading silence enabled, the analyzer
   reset and capture requested again without having been stopped; the state
   is listening as soon as the recorder has confirmed capture, which is at
   once unless the capture context has to be resumed first. *)
C9_NaturalEndRearms ==
  /\ (Called("onended") /\ Before = "playing" /\ Has("onPlaybackEnd")) =>
        /\ BufferEmpty
        /\ DiscardArmed
        /\ ~analyzer.isCurrentlySilent /\ analyzer.silenceStartTime = 0
        /\ HasEv("recorder.startRecording", "autoStartListening")
        /\ ~Has("recorder.stopRecording")
        /\ IF recorder.audioContext = "running"
           THEN state = "listening" /\ recorder.isRecording
           ELSE state = "playing" /\ Awaiting("recorder.resume")
  /\ RearmSucceeded => (state = "listening" /\ recorder.isRecording)

(* a recording was played to its end and the controller listens again *)
C9_Witness ==
  /\ Called("onended") /\ Before = "playing" /\ Has("onPlaybackEnd")
  /\ state = "listening" /\ commands = 1

(* C10: whenever the controller is in listening or playing, under the
   settings it then has, a chunk would take it from listening to recording
   exactly when the same chunk would interrupt playing. *)
C10_SameTest ==
  state \in {"listening", "playing"} =>
  \A amplitude \in Amplitudes :
    LET o == O("ok", "ok", "running", "ok")
        inListening == handleAudioData([Cur EXCEPT !.state = "listening"],
                                       ChunkData(amplitude), SampleRate, o)
        inPlaying == handleAudioData([Cur EXCEPT !.state = "playing"],
                                     ChunkData(amplitude), SampleRate, o)
    IN (inListening.state = "recording")
         <=> (\E i \in 1..Len(inPlaying.out) : inPlaying.out[i].t = "playback.stop")

(* under a raised threshold, a chunk that the default threshold calls loud
   arrived during playing and did not interrupt it *)
C10_Witness ==
  /\ Called("handleAudioData") /\ Before = "playing" /\ Quiet
  /\ analyzer.volumeThreshold # DEFAULT_VOLUME_THRESHOLD
  /\ \E i \in 1..Len(out) : out[i].t = "onVolumeUpdate" /\ out[i].a >= DEFAULT_VOLUME_THRESHOLD
  /\ state = "playing"

----------------------------------------------------------------------------
(* AudioBuffer on its own: any sequence of addData, clear and
   setDiscardInitialSilence calls on a buffer just constructed.  The samples
   of the n-th call all have the value n, so that a chunk names its call. *)

ChunkLengths == {1 * SampleRate, 2 * SampleRate, (MaxRecordingDuration + 1) * SampleRate}

BufferInit ==
  /\ Init
  /\ env.isSupported
  /\ env.bufferSize = SampleRate

BufferFrame ==
  UNCHANGED <<state, isInitialized, analyzer, recorder, playback, sink, now,
              pending, out, env, commands>>

BufferAddData ==
  /\ Len(history) < MaxCalls
  /\ \E len \in ChunkLengths, silent \in BOOLEAN :
       LET audioData == [i \in 1..len |-> Len(history) + 1]
       IN /\ buffer' = addData(buffer, audioData, SampleRate, silent, now)
          /\ history' = Append(history, Ev("addData", audioData, silent))
  /\ BufferFrame

BufferClear ==
  /\ Len(history) < MaxCalls
  /\ buffer' = clear(buffer)
  /\ history' = Append(history, Ev("clear", <<>>, FALSE))
  /\ BufferFrame

BufferSetDiscard ==
  /\ Len(history) < MaxCalls
  /\ \E discard \in BOOLEAN :
       /\ buffer' = setDiscardInitialSilence(buffer, discard)
       /\ history' = Append(history, Ev("setDiscardInitialSilence", <<>>, discard))
  /\ BufferFrame

BufferNext == BufferAddData \/ BufferClear \/ BufferSetDiscard

SpecBuffer == BufferInit /\ [][BufferNext]_vars

(* What the calls so far say, read off the history alone *)

IsClear(e) == e.t = "clear"

IsSetDiscard(e) == e.t = "setDiscardInitialSilence"

IsRearm(e) == e.t = "clear" \/ (e.t = "setDiscardInitialSilence" /\ e.b)

Kind(e, P) ==
  CASE P = "clear" -> IsClear(e)
    [] P = "setDiscard" -> IsSetDiscard(e)
    [] P = "rearm" -> IsRearm(e)

(* the last of the calls before the n-th whose kind is among `kinds`, or 0 *)
LastIndex(h, n, kinds) ==
  LET S == {j \in 1..(n - 1) : \E P \in kinds : Kind(h[j], P)}
  IN IF S = {} THEN 0 ELSE CHOOSE j \in S : \A k \in S : k <= j


(* discard mode at the n-th call: the argument of the last setDiscardInitialSilence *)
DiscardAt(h, n) ==
  LET j == LastIndex(h, n, {"setDiscard"}) IN IF j = 0 THEN FALSE ELSE h[j].b

(* a non-silent chunk was offered in the buffer generation of the n-th call:
   since the last clear() or setDiscardInitialSilence(true) *)
LoudBefore(h, n) ==
  \E j \in (LastIndex(h, n, {"rearm"}) + 1)..(n - 1) : h[j].t = "addData" /\ ~h[j].b

Dropped(h, n) == h[n].t = "addData" /\ h[n].b /\ DiscardAt(h, n) /\ ~LoudBefore(h, n)

(* the chunks accepted since the last clear(), oldest first *)
RECURSIVE AcceptedFrom(_, _)
AcceptedFrom(h, n) ==
  IF n > Len(h) THEN <<>>
  ELSE (IF h[n].t = "addData" /\ ~Dropped(h, n) THEN <<h[n].a>> ELSE <<>>)
       \o AcceptedFrom(h, n + 1)

Accepted == AcceptedFrom(history, LastIndex(history, Len(history) + 1, {"clear"}) + 1)

Retained == [i \in 1..Len(buffer.chunks) |-> buffer.chunks[i].data]

RECURSIVE Flatten(_)
Flatten(seqs) == IF seqs = <<>> THEN <<>> ELSE Head(seqs) \o Flatten(Tail(seqs))

DurationOf(audioData) == Len(audioData) \div SampleRate

(* C11: after every call the buffered duration is at most the maximum, unless
   the newest accepted chunk alone exceeds it, and then exactly that chunk is
   retained; the duration is that of the retained chunks; a buffer that has
   accepted a chunk since the last clear() is not empty. *)
C11_EvictionBound ==
  /\ getDuration(buffer) = SumDuration(buffer.chunks)
  /\ \/ getDuration(buffer) <= buffer.maxDurationSeconds
     \/ Len(buffer.chunks) = 1 /\ buffer.chunks[1].duration > buffer.maxDurationSeconds
  /\ Accepted # <<>> =>
       /\ buffer.chunks # <<>>
       /\ DurationOf(Accepted[Len(Accepted)]) > buffer.maxDurationSeconds
            => Retained = <<Accepted[Len(Accepted)]>>

(* an oversized chunk evicted the chunks before it and is kept alone *)
C11_Witness ==
  /\ Len(Accepted) >= 2
  /\ Len(buffer.chunks) = 1
  /\ getDuration(buffer) > buffer.maxDurationSeconds

(* C12: in discard mode, a silent chunk offered before any non-silent chunk
   of the buffer generation changes nothing; every other chunk becomes the
   newest chunk of the buffer; so no chunk offered before the first non-silent
   chunk of the generation is in getAllData(). *)
C12_LeadingSilenceDropped ==
  /\ [][history' # history /\ history'[Len(history')].t = "addData" =>
          LET e == history'[Len(history')]
          IN IF DiscardAt(history', Len(history')) /\ ~LoudBefore(history', Len(history')) /\ e.b
             THEN buffer' = buffer
             ELSE /\ buffer'.chunks # <<>>
                  /\ buffer'.chunks[Len(buffer'.chunks)].data = e.a]_vars
  /\ [](\A n \in 1..Len(history) :
          Dropped(history, n) =>
            /\ \A i \in 1..Len(buffer.chunks) : buffer.chunks[i].data # history[n].a
            /\ \A i \in 1..Len(getAllData(buffer)) : getAllData(buffer)[i] # n)

(* silence, then a loud chunk, then silence: the first is gone, the rest kept *)
C12_Witness ==
  /\ buffer.discardSilence
  /\ Len(buffer.chunks) = 2
  /\ \E n \in 1..Len(history) : Dropped(history, n) /\ n > LastIndex(history, Len(history) + 1, {"clear"})
  /\ history[Len(history)].t = "addData" /\ history[Len(history)].b

(* C13: getAllData() is the concatenation, in order, of the retained chunks;
   these are the newest accepted chunks, in the order of their acceptance:
   all of them while their total duration is within the maximum; and it is
   empty when there is no chunk. *)
C13_GetAllDataInOrder ==
  /\ getAllData(buffer) = Flatten(Retained)
  /\ getSampleCount(buffer) = Len(getAllData(buffer))
  /\ Len(Retained) <= Len(Accepted)
  /\ Retained = SubSeq(Accepted, Len(Accepted) - Len(Retained) + 1, Len(Accepted))
  /\ DurationOf(Flatten(Accepted)) <= buffer.maxDurationSeconds => Retained = Accepted
  /\ buffer.chunks = <<>> => getAllData(buffer) = <<>>

(* the oldest accepted chunk was evicted, two newer ones are retained *)
C13_Witness ==
  /\ Len(Retained) >= 2
  /\ Len(Accepted) > Len(Retained)
  /\ getAllData(buffer) # <<>>

----------------------------------------------------------------------------
(* AudioAnalyzer on its own: an analyzer just constructed is handed chunks
   at a fixed interval (one chunk duration), with reset() calls in between.  Nothing listens to its
   SilenceEvents: the controller stays in 'ready'.  The history keeps, for
   each chunk, whether it was classified silent and how many SilenceEvents
   it produced. *)

AnalyzerDurations == {SilenceUnit, SilenceUnit + 1, SilenceUnit + 2}

AnalyzerInit ==
  /\ state = "ready"
  /\ isInitialized = FALSE
  /\ env \in Environments
  /\ env.isSupported
  /\ buffer = NewBuffer(env.maxRecordingDuration)
  /\ \E silenceDuration \in AnalyzerDurations :
       analyzer = NewAnalyzer(DEFAULT_VOLUME_THRESHOLD, silenceDuration)
  /\ recorder = [isRecording |-> FALSE, isInitialized |-> FALSE, audioContext |-> "none"]
  /\ playback = [isPlaying |-> FALSE, currentSource |-> 0, audioContext |-> "none"]
  /\ sink = [sounding |-> {}, ended |-> {}]
  /\ now = 0
  /\ pending = <<>>
  /\ out = <<>>
  /\ commands = 0
  /\ history = <<>>

AnalyzerAnalyze ==
  /\ Len(history) < MaxCalls
  /\ \E amplitude \in Amplitudes :
       LET s == analyze([Enter("analyze") EXCEPT !.now = now + ChunkDuration],
                        ChunkData(amplitude), O("ok", "ok", "running", "ok"))
           fired == Cardinality({i \in 1..Len(s.out) : s.out[i].t = "onSilenceDetected"})
           silent == \E i \in 1..Len(s.out) : s.out[i].t = "onVolumeUpdate" /\ s.out[i].b
       IN /\ analyzer' = s.analyzer
          /\ now' = s.now
          /\ out' = s.out
          /\ history' = Append(history, Ev("analyze", silent, fired))
  /\ UNCHANGED <<state, isInitialized, buffer, recorder, playback, sink, pending,
                 env, commands>>

(* reset() between two chunks *)
AnalyzerReset ==
  /\ Len(history) < MaxCalls
  /\ analyzer' = reset(analyzer)
  /\ out' = <<Ev("call", "reset", state)>>
  /\ history' = Append(history, Ev("reset", FALSE, 0))
  /\ UNCHANGED <<state, isInitialized, buffer, recorder, playback, sink, pending,
                 env, commands, now>>

AnalyzerNext == AnalyzerAnalyze \/ AnalyzerReset

SpecAnalyzer == AnalyzerInit /\ [][AnalyzerNext]_vars

(* chunks it takes for a full configured duration to elapse *)
Period == (analyzer.silenceDuration + ChunkDuration - 1) \div ChunkDuration

(* number of silent chunks in a row immediately before the n-th chunk *)
RECURSIVE RunBefore(_, _)
RunBefore(h, n) ==
  IF n = 1 \/ ~h[n - 1].a THEN 0 ELSE 1 + RunBefore(h, n - 1)

(* C14 as stated: ... it never emits one event per chunk while silence
   continues: no two chunks in a row both produce a SilenceEvent. *)
C14_NeverOnePerChunk ==
  \A n \in 1..(Len(history) - 1) : ~(history[n].b > 0 /\ history[n + 1].b > 0)

(* C14 (amended): in a run of silent chunks the analyzer emits exactly one
   SilenceEvent on each chunk that arrives a whole number (at least one) of
   periods after the run's first chunk, a period being the chunks a full
   configured duration takes, and none on any other chunk; an event reports
   an elapsed silence of at least the configured duration and restarts the
   timer; chunks in a row both emit only when one chunk interval is already
   a full configured duration. *)
C14_OneEventPerFullDuration ==
  /\ \A n \in 1..Len(history) :
       history[n].b = IF /\ history[n].a
                         /\ RunBefore(history, n) > 0
                         /\ RunBefore(history, n) % Period = 0
                      THEN 1 ELSE 0
  /\ \A i \in 1..Len(out) :
       out[i].t = "onSilenceDetected" =>
         /\ out[i].a >= analyzer.silenceDuration
         /\ analyzer.silenceStartTime = now
  /\ (\E n \in 1..(Len(history) - 1) : history[n].b > 0 /\ history[n + 1].b > 0)
       => ChunkDuration >= analyzer.silenceDuration

(* a silent run long enough for two events with a silent chunk between them *)
C14_Witness ==
  /\ Period = 2
  /\ Len(history) = 5
  /\ \A n \in 1..5 : history[n].a
  /\ history[3].b = 1 /\ history[4].b = 0 /\ history[5].b = 1

----------------------------------------------------------------------------
(* Playback sessions *)

(* C15: every playback session started by playAudio ends with exactly one of
   'playback ended' and 'playback interrupted': a step that ends the session
   (the driver was playing a source and afterwards is not playing it) fires
   exactly one of onPlaybackEnd and onPlaybackInterrupted, whether the step
   is stop(), cleanup(), a new playAudio or the sink's end-of-data signal. *)
C15_OneEndPerSession ==
  [][(/\ playback.isPlaying
      /\ ~(playback'.isPlaying /\ playback'.currentSource = playback.currentSource))
       => (Count("onPlaybackEnd") + Count("onPlaybackInterrupted"))' = 1]_vars

(* C16: playback is exclusive: at no time is more than one source sounding
   on the sink, and a stop() made when nothing is playing fires no event
   and reports no error. *)
C16_OneSourceSounding ==
  Cardinality(sink.sounding) <= 1

----------------------------------------------------------------------------
(* Settings *)

(* the options object the last step handed to analyzer.updateSettings *)
SettingsGiven ==
  LET i == CHOOSE i \in 1..Len(out) : out[i].t = "analyzer.updateSettings"
  IN [volumeThreshold |-> out[i].a, silenceDuration |-> out[i].b]

(* C17: updateSettings() on the controller forwards the given volumeThreshold
   and silenceDuration to the analyzer; a field that was given takes the
   given value and an omitted field keeps its previous value; the
   controller's state, the buffer, capture and playback activity, and the
   analyzer's currently-silent flag and timer start are left unchanged. *)
C17_UpdateSettingsFrame ==
  [][Called("updateSettings")' =>
       /\ Count("analyzer.updateSettings")' = 1
       /\ analyzer'.volumeThreshold =
             IF SettingsGiven'.volumeThreshold = Undefined
             THEN analyzer.volumeThreshold ELSE SettingsGiven'.volumeThreshold[1]
       /\ analyzer'.silenceDuration =
             IF SettingsGiven'.silenceDuration = Undefined
             THEN analyzer.silenceDuration ELSE SettingsGiven'.silenceDuration[1]
       /\ analyzer'.isCurrentlySilent = analyzer.isCurrentlySilent
       /\ analyzer'.silenceStartTime = analyzer.silenceStartTime
       /\ UNCHANGED <<state, isInitialized, buffer, recorder, playback, sink,
                      pending, now>>
       /\ ~Has("stateChange")']_vars

(* the silence duration alone is changed while a silence run is being timed *)
C17_Witness ==
  /\ Called("updateSettings")
  /\ state = "recording"
  /\ analyzer.isCurrentlySilent
  /\ analyzer.silenceStartTime > 0
  /\ getDuration(buffer) > 0
  /\ SettingsGiven.volumeThreshold = Undefined
  /\ SettingsGiven.silenceDuration = Some(SilenceUnit + 1)
  /\ analyzer.silenceDuration = SilenceUnit + 1
  /\ analyzer.volumeThreshold = DEFAULT_VOLUME_THRESHOLD

----------------------------------------------------------------------------
(* Listening *)

(* C18: in listening a chunk classified silent is discarded and the state
   stays listening; and in every reachable state where the controller is in
   listening the buffer is empty (duration 0, no chunks). *)
C18_ListeningBufferEmpty ==
  /\ [](state = "listening" => BufferEmpty)
  /\ [][(state = "listening" /\ Called("handleAudioData")' /\ Quiet')
          => (state' = "listening" /\ buffer' = buffer)]_vars

----------------------------------------------------------------------------
(* Failures *)

(* an invocation of device initialization, capture start or playAudio *)
Invokes(e) == e.t \in {"initialize", "recorder.startRecording", "playAudio"}

(* C19: no automatic retries: in a step that reports a failure the
   controller invokes neither device initialization nor capture start nor
   playAudio after the report; the step leaves the controller in ready or
   error; and in ready or error a chunk from the capture device invokes
   none of them and changes neither the state nor the buffer, so that only
   a new command invokes such an operation again. *)
C19_NoAutomaticRetry ==
  /\ [](\A i \in 1..Len(out) :
          out[i].t = "failure" =>
            /\ \A j \in (i + 1)..Len(out) : ~Invokes(out[j])
            /\ state \in {"ready", "error"})
  /\ [][(state \in {"ready", "error"} /\ Called("handleAudioData")')
          => /\ \A i \in 1..Len(out') : ~Invokes(out'[i])
             /\ UNCHANGED <<state, buffer, pending, sink, playback, recorder>>]_vars

(* the cycle's own capture start (the re-arm after playback) has failed *)
C19_Witness ==
  /\ HasEv("failure", "re-arm")
  /\ HasEv("started", "autoStartListening")
  /\ state = "ready"

----------------------------------------------------------------------------
(* Volume updates *)

(* C20: every chunk analyzed produces exactly one volume-update
   notification, whether or not the chunk is classified silent: a chunk
   delivered while the controller is in listening, recording or playing
   yields exactly one onVolumeUpdate call, which carries the chunk's volume
   and its classification against the analyzer's threshold. *)
C20_OneVolumeUpdatePerChunk ==
  [][(Called("handleAudioData")' /\ state \in ActiveStates) =>
       /\ Count("onVolumeUpdate")' = 1
       /\ \E amplitude \in Amplitudes :
            HasEv("onVolumeUpdate", amplitudeToDb(amplitude))'
       /\ \A i \in 1..Len(out') :
            out'[i].t = "onVolumeUpdate" =>
              out'[i].b = (out'[i].a < analyzer.volumeThreshold)]_vars

(* a silent chunk that triggered playback still produced its one update *)
C20_Witness ==
  /\ Called("handleAudioData")
  /\ Before = "recording"
  /\ Quiet
  /\ Has("onSilenceDetected")
  /\ Has("playAudio")
  /\ Count("onVolumeUpdate") = 1

----------------------------------------------------------------------------
(* The controller with a recorder whose startRecording() may reject, as the
   test double of the controller's tests does (part_005, lines 266-280).
   Everything else is the program of Spec. *)

(* the catch block that reports the error and then falls back to ready *)
autoStartListeningCatch_toReady(s) ==
  setState(handleError(s, ERROR_TYPES.RECORDING, ERROR_MESSAGES.RECORDING_FAILED), "ready")

(* autoStartListening's catch block (VocalMirror.ts, lines 211-218) *)
autoStartListeningCatch(s) ==
  handleError(s, ERROR_TYPES.AUTO_LISTENING, ERROR_MESSAGES.AUTO_LISTENING_FAILED)

(* autoStartListening() when `await this.recorder.startRecording()` rejects *)
autoStartListeningRejected(s) ==
  autoStartListeningCatch(
    emit([s EXCEPT !.buffer = setDiscardInitialSilence(clear(@), TRUE),
                   !.analyzer = reset(@)],
         Ev("recorder.startRecording", "autoStartListening", "rejects")))

(* a source's 'ended' event while playing; the re-arm rejects *)
OnEndedRearmRejects ==
  \E src \in sink.ended :
    /\ playback.isPlaying
    /\ Apply(autoStartListeningRejected(
               emit([Enter("onended") EXCEPT !.sink.ended = @ \ {src},
                                             !.playback.isPlaying = FALSE,
                                             !.playback.currentSource = 0],
                    Ev("onPlaybackEnd", src, ""))))

(* a loud chunk interrupts playback; the re-arm rejects *)
InterruptRearmRejects ==
  /\ recorder.audioContext = "running"
  /\ recorder.isRecording
  /\ ~Awaiting("recorder.resume")
  /\ now < MaxChunks * ChunkDuration
  /\ state = "playing"
  /\ \E amplitude \in Amplitudes :
       LET audioData == ChunkData(amplitude)
           s1 == analyze([Enter("handleAudioData") EXCEPT !.now = now + ChunkDuration],
                         audioData, O("ok", "ok", "running", "ok"))
       IN /\ ~isSilent(analyzer, amplitudeToDb(calculateVolume(audioData)))
          /\ Apply(autoStartListeningRejected(
                     playbackStop(emit(s1, Ev("playback.stop", "", "")))))

RearmNext == Next \/ OnEndedRearmRejects \/ InterruptRearmRejects

SpecRearm == Init /\ [][RearmNext]_vars

RearmRejected ==
  \E i \in 1..Len(out) : out[i].t = "recorder.startRecording" /\ out[i].b = "rejects"

(* C21: when the recorder's startRecording() rejects during the re-arm, the
   exception is caught: the step ends with the controller in error, the
   error callback has been called exactly once, with kind 'auto-listening'
   and message 'Failed to automatically start listening', and nothing is
   thrown to the caller. *)
C21_RearmRejectionCaught ==
  RearmRejected =>
    /\ state = "error"
    /\ Count("error") = 1
    /\ \E i \in 1..Len(out) :
         /\ out[i].t = "error"
         /\ out[i].a = "auto-listening"
         /\ out[i].b = "Failed to automatically start listening"
    /\ ~Has("throw")

(* the re-arm after a playback that ended by itself was rejected *)
C21_Witness ==
  /\ RearmRejected
  /\ Called("onended")
  /\ Before = "playing"
  /\ Has("onPlaybackEnd")
  /\ state = "error"

----------------------------------------------------------------------------
(* Cleanup *)

(* C22: cleanup() called in any state leaves the controller in ready with
   isInitialized false and an empty buffer, capture stopped (the recorder
   neither recording nor initialized, its context gone) and the playback
   driver not playing (no current source, its context gone); a start command
   that finds the controller uninitialized calls initialize() first and
   neither starts capture nor enters listening before initialize() has
   settled. *)
C22_CleanupReleasesAll ==
  /\ [](Called("cleanup") =>
          /\ state = "ready"
          /\ ~isInitialized
          /\ BufferEmpty
          /\ ~recorder.isRecording /\ ~recorder.isInitialized
          /\ recorder.audioContext = "none"
          /\ ~playback.isPlaying /\ playback.currentSource = 0
          /\ playback.audioContext = "none")
  /\ [][(Called("startRecording")' /\ ~isInitialized) =>
          /\ Has("initialize")'
          /\ out'[2].t = "initialize"
          /\ \A i \in 1..Len(out') : out'[i].t = "stateChange" => out'[i].b # "listening"
          /\ ~Has("recorder.startRecording")']_vars

(* cleanup() during playback, with capture running *)
C22_Witness ==
  /\ Called("cleanup")
  /\ Before = "playing"
  /\ Has("recorder.stopRecording")
  /\ sink.ended # {}
  /\ state = "ready"

----------------------------------------------------------------------------
(* State-change notifications *)

(* the state-change notifications of the last step, in order *)
StateChanges == SelectSeq(out, LAMBDA e : e.t = "stateChange")

(* C23: every assignment of the controller state emits exactly one
   state-change notification, oldState being the state before and newState
   the state after: the notifications of a step form a chain that starts at
   the state before the step and ends at the state after it, and without a
   notification the state does not change; self-transitions are notified
   too (the step in which initialize() succeeds sets isInitialized and
   notifies ready to ready, or error to ready when another command had
   failed meanwhile). *)
C23_StateChangeChain ==
  [][/\ LET n == Len(StateChanges')
        IN /\ n = 0 => state' = state
           /\ n > 0 => /\ StateChanges'[1].a = state
                        /\ StateChanges'[n].b = state'
                        /\ \A i \in 1..(n - 1) : StateChanges'[i + 1].a = StateChanges'[i].b
     /\ (isInitialized' /\ ~isInitialized) =>
           \E i \in 1..Len(StateChanges') :
             /\ StateChanges'[i].b = "ready"
             /\ StateChanges'[i].a = state
             /\ state = "ready" => StateChanges'[i] = Ev("stateChange", "ready", "ready")]_vars

(* initialize() succeeded in ready: a ready-to-ready notification *)
C23_Witness ==
  /\ Called("getUserMedia")
  /\ Before = "ready"
  /\ isInitialized
  /\ StateChanges = <<Ev("stateChange", "ready", "ready")>>
  /\ state = "ready"

----------------------------------------------------------------------------
(* Playing *)

(* C24: in playing a chunk classified silent does not interrupt: the state
   stays playing, playback is not stopped (the driver, the sink and the
   suspended operations are as before, nothing is played or re-armed), and
   the buffer is unchanged; and no chunk delivered in playing, silent or
   not, is appended to the buffer. *)
C24_SilentChunkInPlaying ==
  [][(state = "playing" /\ Called("handleAudioData")') =>
       /\ Quiet' =>
            /\ state' = "playing"
            /\ UNCHANGED <<buffer, playback, sink, pending, recorder, isInitialized>>
            /\ ~Has("playback.stop")' /\ ~Has("onPlaybackInterrupted")'
            /\ ~Has("playAudio")' /\ ~Has("recorder.startRecording")'
            /\ ~Has("stateChange")'
       /\ Len(buffer'.chunks) <= Len(buffer.chunks)
       /\ \A i \in 1..Len(buffer'.chunks) : buffer'.chunks[i] = buffer.chunks[i]]_vars

(* a silent chunk long enough into a silence run to raise a SilenceEvent
   arrives while a source is sounding *)
C24_Witness ==
  /\ Called("handleAudioData")
  /\ Before = "playing"
  /\ Quiet
  /\ Has("onSilenceDetected")
  /\ state = "playing"
  /\ playback.isPlaying
  /\ playback.currentSource \in sink.sounding

----------------------------------------------------------------------------
(* AudioAnalyzer.reset *)

(* the last reset() before the n-th call, or 0 *)
LastReset(h, n) ==
  LET S == {j \in 1..(n - 1) : h[j].t = "reset"}
  IN IF S = {} THEN 0 ELSE CHOOSE j \in S : \A k \in S : k <= j

(* C25: reset() clears the currently-silent flag and the timer; a
   SilenceEvent fires only on a chunk that ends a run of silent chunks which
   began after the last reset() and has lasted at least the configured
   silence duration since its first chunk: silence analyzed before the
   reset never counts. *)
C25_ResetRestartsSilence ==
  /\ (history # <<>> /\ history[Len(history)].t = "reset") =>
        (~analyzer.isCurrentlySilent /\ analyzer.silenceStartTime = 0)
  /\ \A n \in 1..Len(history) :
       history[n].b > 0 =>
         \E m \in (LastReset(history, n) + 1)..n :
           /\ \A j \in m..n : history[j].t = "analyze" /\ history[j].a
           /\ (n - m) * ChunkDuration >= analyzer.silenceDuration

(* silence, a reset(), and then a silent run long enough to fire *)
C25_Witness ==
  /\ \E r \in 2..Len(history) :
       /\ history[r].t = "reset"
       /\ history[r - 1].t = "analyze" /\ history[r - 1].a
       /\ \A j \in (r + 1)..Len(history) : history[j].t = "analyze" /\ history[j].a
       /\ Len(history) >= r + 2
  /\ Has("onSilenceDetected")
  /\ Period >= 2

----------------------------------------------------------------------------
(* AudioAnalyzer.trackSilence *)

(* the n-th call analyzed a silent chunk *)
SilentAt(h, n) == h[n].t = "analyze" /\ h[n].a

(* C26: a SilenceEvent is emitted only on a silent chunk, and the elapsed
   silence it reports is at least the configured duration and is the time
   since the arrival of an earlier chunk from which on every chunk analyzed
   has been silent; a non-silent chunk clears the currently-silent flag, and
   the first silent chunk after it (or after construction or reset) starts
   the timer at its own arrival time. *)
C26_EventOnlyAfterUnbrokenSilence ==
  LET n == Len(history)
  IN /\ \A k \in 1..n : history[k].b > 0 => SilentAt(history, k)
     /\ \A i \in 1..Len(out) :
          out[i].t = "onSilenceDetected" =>
            /\ out[i].a >= analyzer.silenceDuration
            /\ out[i].b = now
            /\ \E m \in 1..n :
                 /\ \A j \in m..n : SilentAt(history, j)
                 /\ out[i].a = (n - m) * ChunkDuration
     /\ (n > 0 /\ history[n].t = "analyze" /\ ~history[n].a) => ~analyzer.isCurrentlySilent
     /\ (n > 0 /\ SilentAt(history, n) /\ (n = 1 \/ ~SilentAt(history, n - 1))) =>
           /\ analyzer.isCurrentlySilent
           /\ analyzer.silenceStartTime = now

(* silence broken by a non-silent chunk, then a new run that fires *)
C26_Witness ==
  /\ Len(history) = 5
  /\ SilentAt(history, 1)
  /\ history[2].t = "analyze" /\ ~history[2].a
  /\ SilentAt(history, 3) /\ SilentAt(history, 4) /\ SilentAt(history, 5)
  /\ history[4].b = 0
  /\ history[5].b = 1
  /\ Has("onSilenceDetected")

----------------------------------------------------------------------------
(* Silence classification on its own: chunks of several levels are analyzed
   by an analyzer whose threshold is changed between chunks.  The history
   keeps, for each chunk, its level, the threshold in force and the
   classification reported. *)

ClassifyAmplitudes == {0, 1, 10, 100}

ClassifyThresholds ==
  {DEFAULT_VOLUME_THRESHOLD - 10, DEFAULT_VOLUME_THRESHOLD,
   DEFAULT_VOLUME_THRESHOLD + 10, DEFAULT_VOLUME_THRESHOLD + 20}

ClassifyInit == Init /\ env.isSupported

ClassifyFrame ==
  UNCHANGED <<state, isInitialized, buffer, recorder, playback, sink, pending,
              env, commands, now>>

ClassifyChunk ==
  /\ Len(history) < MaxCalls
  /\ \E amplitude \in ClassifyAmplitudes :
       LET s == analyze(Enter("analyze"), ChunkData(amplitude), O("ok", "ok", "running", "ok"))
           i == CHOOSE i \in 1..Len(s.out) : s.out[i].t = "onVolumeUpdate"
       IN /\ analyzer' = s.analyzer
          /\ out' = s.out
          /\ history' = Append(history, Ev("isSilent",
                                           <<s.out[i].a, analyzer.volumeThreshold>>,
                                           s.out[i].b))
  /\ ClassifyFrame

ClassifyUpdateSettings ==
  /\ Len(history) < MaxCalls
  /\ \E volumeThreshold \in ClassifyThresholds :
       /\ analyzer' = analyzerUpdateSettings(analyzer,
                         [volumeThreshold |-> Some(volumeThreshold),
                          silenceDuration |-> Undefined])
       /\ out' = <<Ev("call", "updateSettings", state)>>
       /\ history' = Append(history, Ev("updateSettings", <<>>, FALSE))
  /\ ClassifyFrame

ClassifyNext == ClassifyChunk \/ ClassifyUpdateSettings

SpecClassify == ClassifyInit /\ [][ClassifyNext]_vars

(* the chunks classified so far *)
Classified == {n \in 1..Len(history) : history[n].t = "isSilent"}

(* C27: classification is the strict comparison of the level with the
   threshold: a chunk is silent exactly when its level is below the
   threshold, so a chunk whose level equals the threshold is non-silent; a
   chunk of amplitude 0 (level minus infinity) is silent at every
   threshold; and of two classifications of the same level, the one under
   the higher threshold is silent whenever the other is. *)
C27_StrictThreshold ==
  /\ \A n \in Classified :
       /\ history[n].b = (history[n].a[1] < history[n].a[2])
       /\ history[n].a[1] = history[n].a[2] => ~history[n].b
       /\ history[n].a[1] = NegInfinity => history[n].b
  /\ \A n, m \in Classified :
       (/\ history[n].a[1] = history[m].a[1]
        /\ history[n].a[2] <= history[m].a[2]
        /\ history[n].b) => history[m].b

(* a chunk exactly at the threshold, the same level again after the
   threshold was raised, and a chunk of amplitude 0 *)
C27_Witness ==
  \E n, m, z \in Classified :
    /\ history[n].a[1] = history[n].a[2] /\ ~history[n].b
    /\ history[m].a[1] = history[n].a[1]
    /\ history[m].a[2] > history[n].a[2] /\ history[m].b
    /\ history[z].a[1] = NegInfinity /\ history[z].b

----------------------------------------------------------------------------
(* AudioBuffer.clear and setDiscardInitialSilence *)

(* C28: clear() drops all chunks, resets the duration to 0 and resets the
   non-silent-seen flag, and leaves the discard mode as it is;
   setDiscardInitialSilence(d) sets the mode to d and leaves the chunks and
   the duration alone, and with d true it also resets the non-silent-seen
   flag; so after either call with the mode on, a silent chunk is dropped
   (the buffer does not change) until a non-silent chunk has been added,
   which is kept and ends the dropping. *)
C28_ClearAndDiscardMode ==
  [][LET e == history'[Len(history')]
     IN /\ e.t = "clear" =>
             /\ BufferEmpty'
             /\ ~buffer'.hasReceivedAudio
             /\ buffer'.discardSilence = buffer.discardSilence
        /\ e.t = "setDiscardInitialSilence" =>
             /\ buffer'.discardSilence = e.b
             /\ buffer'.chunks = buffer.chunks
             /\ buffer'.currentDuration = buffer.currentDuration
             /\ buffer'.hasReceivedAudio = (~e.b /\ buffer.hasReceivedAudio)
        /\ (e.t \in {"clear", "setDiscardInitialSilence"} /\ buffer'.discardSilence
               /\ (e.t = "clear" \/ e.b)) => DiscardArmed'
        /\ (e.t = "addData" /\ DiscardArmed) =>
             IF e.b
             THEN buffer' = buffer
             ELSE /\ buffer'.chunks # <<>>
                  /\ buffer'.chunks[Len(buffer'.chunks)].data = e.a
                  /\ ~DiscardArmed']_vars

(* audio was kept, clear() came with the mode on, and the silent chunk
   offered next was dropped *)
C28_Witness ==
  /\ Len(history) = 4
  /\ history[1] = Ev("setDiscardInitialSilence", <<>>, TRUE)
  /\ history[2].t = "addData" /\ ~history[2].b
  /\ history[3].t = "clear"
  /\ history[4].t = "addData" /\ history[4].b
  /\ BufferEmpty
  /\ DiscardArmed

----------------------------------------------------------------------------
(* AudioBuffer: the duration and the sample count *)

(* C29: in every reachable buffer state getDuration() is the sum of the
   durations of the retained chunks, each the chunk's length over the
   sample rate, and getSampleCount() is the length of getAllData(); both
   are 0 exactly when no chunk is retained (chunks are non-empty). *)
C29_DurationMatchesChunks ==
  /\ getDuration(buffer) = SumDuration(buffer.chunks)
  /\ \A i \in 1..Len(buffer.chunks) :
       buffer.chunks[i].duration = DurationOf(buffer.chunks[i].data)
  /\ getSampleCount(buffer) = Len(getAllData(buffer))
  /\ (getDuration(buffer) = 0) = (buffer.chunks = <<>>)
  /\ (getSampleCount(buffer) = 0) = (buffer.chunks = <<>>)

(* chunks have been evicted and at least two of different lengths remain *)
C29_Witness ==
  /\ Len(Accepted) > Len(Retained)
  /\ Len(buffer.chunks) >= 2
  /\ buffer.chunks[1].duration # buffer.chunks[2].duration
  /\ getDuration(buffer) = buffer.maxDurationSeconds

----------------------------------------------------------------------------
(* VocalMirror: stopRecording() and triggerPlayback() in recording *)

(* C30: a stopRecording() or triggerPlayback() issued while the controller
   is in recording returns without an exception escaping; with audio in
   the buffer it hands the audio to playback exactly once and leaves
   recording, with an empty buffer it leaves the state unchanged. *)
C30_StopInRecordingTerminates ==
  ((Called("stopRecording") \/ Called("triggerPlayback")) /\ Before = "recording")
    => /\ ~Has("throw")
       /\ IF getDuration(buffer) = 0
          THEN state = "recording" /\ ~Has("playback.playAudio")
          ELSE Entered("playing") /\ Count("playback.playAudio") = 1

----------------------------------------------------------------------------
(* VocalMirror: stop() and capture *)

(* C31: when stop() found the controller in listening, recording or playing
   and left it in ready, capture is no longer active: the recorder's
   isRecording is false, so onaudioprocess delivers no chunk. *)
C31_StopEndsCapture ==
  (Called("stop") /\ Before \in ActiveStates /\ state = "ready")
    => ~recorder.isRecording

(* a suspended operation went on in the last step: getUserMedia or one of the
   two resume() promises settled *)
Completion ==
  Called("getUserMedia") \/ Called("recorder.resume") \/ Called("playback.resume")

(* C32: stop() is durable across pending asynchronous operations: when stop()
   was called with an operation still pending and that operation then
   completes without a failure, the controller is still in ready and no
   playback is running. *)
C32_StopIsDurable ==
  [][(Called("stop") /\ pending # <<>> /\ Completion' /\ ~Has("failure")')
       => (state' = "ready" /\ ~playback'.isPlaying)]_vars

----------------------------------------------------------------------------
(* AudioPlayback and the controller state *)

(* C33: in every reachable state, if the playback driver is playing
   (isCurrentlyPlaying) then the controller state is playing. *)
C33_PlayingOnlyInPlaying ==
  playback.isPlaying => state = "playing"

(* C34: the 'ended' event of a source that is no longer the driver's current
   source (its session was stopped) fires no 'playback ended' event and
   leaves the playing flag and the source of the later session alone. *)
C34_StaleEndedIgnored ==
  [][\A src \in sink.ended :
       (Called("onended")' /\ src \notin sink'.ended /\ src # playback.currentSource)
         => (~Has("onPlaybackEnd")' /\ playback' = playback)]_vars

----------------------------------------------------------------------------
(* VocalMirror: what a SilenceEvent hands to playback *)

(* the last step handled a chunk in recording whose SilenceEvent moved the
   controller to playing *)
SilenceTriggeredPlayback ==
  /\ Called("handleAudioData") /\ Before = "recording"
  /\ Has("onSilenceDetected") /\ Entered("playing")

(* C35: when a SilenceEvent moves the controller from recording to playing,
   playAudio is handed, once, the samples the buffer held before the chunk
   that fired the event: the retained chunks in arrival order, one chunk
   interval apart up to the chunk before the firing one; the firing chunk
   itself is not buffered. *)
C35_PlaysBufferBeforeFiringChunk ==
  [][SilenceTriggeredPlayback' =>
       /\ buffer' = buffer
       /\ Count("playAudio")' = 1
       /\ \E i \in 1..Len(out') :
            out'[i].t = "playAudio" /\ out'[i].a = getAllData(buffer)
       /\ buffer.chunks # <<>>
       /\ buffer.chunks[Len(buffer.chunks)].timestamp = now
       /\ \A i \in 1..(Len(buffer.chunks) - 1) :
            buffer.chunks[i + 1].timestamp = buffer.chunks[i].timestamp + ChunkDuration]_vars

(* a SilenceEvent started playback of a recording of two chunks or more *)
C35_Witness ==
  /\ SilenceTriggeredPlayback
  /\ Len(buffer.chunks) >= 2
  /\ HasEv("playAudio", getAllData(buffer))

----------------------------------------------------------------------------
(* VocalMirror: errors of initialization, chunks outside the cycle *)

(* C36: a single device-initialization failure (the recorder or the playback
   driver fails to initialize) produces exactly one error notification to
   the caller, and nothing is thrown. *)
C36_OneErrorPerInitFailure ==
  (HasEv("failure", "initialization") /\ Count("failure") = 1)
    => (Count("error") = 1 /\ ~Has("throw"))

(* C37: a chunk that arrives while the controller is in ready or error
   changes nothing: the state, the buffer, the analyzer, the drivers and the
   suspended operations are as before, and the step notifies nobody (its log
   holds the arrival alone: no volume, state-change or error notification). *)
C37_ChunkOutsideCycleIgnored ==
  [][(Called("handleAudioData")' /\ out'[1].b \in {"ready", "error"})
       => /\ state' = state
          /\ buffer' = buffer
          /\ analyzer' = analyzer
          /\ recorder' = recorder
          /\ playback' = playback
          /\ pending' = pending
          /\ Len(out') = 1]_vars

(* a chunk arrived in ready while the analyzer was in the middle of a
   silence *)
C37_Witness ==
  Called("handleAudioData") /\ Before = "ready" /\ analyzer.isCurrentlySilent

----------------------------------------------------------------------------
(* VocalMirror: playback of an empty buffer *)

(* C38: playback is never started with no audio: a triggerPlayback() that
   finds the buffer's duration 0 leaves the state unchanged and does not call
   playAudio; every playAudio call of the controller carries a non-empty
   sample sequence; and whenever a step enters playing the buffer is not
   empty. *)
C38_NoPlaybackOfNothing ==
  /\ (Called("triggerPlayback") /\ getDuration(buffer) = 0)
       => (state = Before /\ ~Has("stateChange") /\ ~Has("playAudio"))
  /\ \A i \in 1..Len(out) : out[i].t = "playAudio" => out[i].a # <<>>
  /\ Entered("playing") => (getDuration(buffer) > 0 /\ getAllData(buffer) # <<>>)

(* triggerPlayback() was called in the cycle with nothing buffered *)
C38_Witness ==
  /\ Called("triggerPlayback") /\ Before \in {"listening", "playing"}
  /\ getDuration(buffer) = 0

----------------------------------------------------------------------------
(* The oldest retained chunk *)

(* a chunk that isSilent() classifies silent under every threshold the
   analyzer can have *)
AlwaysSilent(audioData) ==
  \A th \in Thresholds :
    isSilent([volumeThreshold |-> th], amplitudeToDb(calculateVolume(audioData)))

(* C39: whenever the buffer is non-empty in recording or playing, its oldest
   retained chunk was classified non-silent, also after the eviction of
   oldest chunks at the maximum duration. *)
C39_OldestChunkNonSilent ==
  (state \in {"recording", "playing"} /\ buffer.chunks # <<>>)
    => ~AlwaysSilent(Head(buffer.chunks).data)

====
